---- MODULE Spec2Model ----
(***************************************************************************)
(* A model of main.py: the client dashboard (list view) and the chat view. *)
(*                                                                         *)
(* Python values are tagged records, so that None, numbers, strings, lists *)
(* and dicts can be told apart the way isinstance() tells them apart.  A   *)
(* Python str is a sequence of symbols; a symbol is one character or one   *)
(* word that the program never looks inside.                               *)
(***************************************************************************)
EXTENDS Integers, Sequences, FiniteSets, TLC

VARIABLES
    addresses,      \* extract_address: its argument
    ea_result,      \* extract_address: what the call did (pending / returned / raised)
    pd_df,          \* process_data: its argument, a table
    pd_result,      \* process_data: what the call did
    pc,             \* main: where the render is
    client_id_str,  \* main: the client_id query parameter, None when absent
    client_id,      \* main: int(client_id_str)
    call,           \* main: the stage query at work, "gt4" or "lt4"
    df_stage,       \* main: df_stage_greater_than_4 and df_stage_less_than_4
    df_processed,   \* main: df_processed_greater_than_4 and df_processed_less_than_4
    raised,         \* main: the exception that left main, "none" when none did
    handles,        \* every connection and cursor opened so far, open or closed
    errors,         \* what st.error showed, in order
    ui,             \* what the render wrote to the page, in order
    exc,            \* the exception an except block is about to handle, "none" if none
    connection,     \* fetch_data: its connection, 0 for None, else an index of handles
    cursor,         \* fetch_data: its cursor, likewise
    records,        \* fetch_data: the fetched rows
    ret,            \* fetch_data: the value to return
    conn,           \* fetch_chat_data: its connection, 0 before it is bound
    cur,            \* fetch_chat_data: its cursor, likewise
    chats,          \* fetch_chat_data: the rows of the chat query
    client_info,    \* fetch_chat_data: the row of the client query, or None
    chat_ret,       \* fetch_chat_data: the returned transcript and names
    session_state,  \* st.session_state: attribute name -> value
    prompt          \* display_chat_ui: what st.chat_input returned

addrVars == <<addresses, ea_result>>
procVars == <<pd_df, pd_result>>
fetchVars == <<connection, cursor, records, ret>>
chatVars == <<conn, cur, chats, client_info, chat_ret>>
mainVars == <<pc, client_id_str, client_id, call, df_stage, df_processed, raised,
              handles, errors, ui, exc, fetchVars, chatVars, session_state, prompt>>
vars == <<addrVars, procVars, mainVars>>

----------------------------------------------------------------------------
(* Bounds of the model *)

\* longest decoded address list that is tried
MaxAddrs == 2
\* most rows of a table handed to process_data
MaxRows == 3
\* most rows a stage query returns in a render
MaxFetched == 2
\* most symbols of the client_id query parameter
MaxIdLen == 2
\* most rows the chat query returns
MaxChats == 2

----------------------------------------------------------------------------
(* Python values *)

PyNone == [k |-> "none"]
PyInt(n) == [k |-> "int", v |-> n]
PyStr(s) == [k |-> "str", v |-> s]
PyList(s) == [k |-> "list", v |-> s]
PyDict(f) == [k |-> "dict", v |-> f]
PyTuple(s) == [k |-> "tuple", v |-> s]

\* a str of one word
W(w) == PyStr(<<w>>)
EmptyStr == PyStr(<<>>)

IsStr(x) == x.k = "str"
IsList(x) == x.k = "list"
IsDict(x) == x.k = "dict"

\* Python truthiness of None / str / list values (`if x:`)
Truthy(x) ==
    CASE x.k = "none" -> FALSE
      [] x.k = "str" -> Len(x.v) > 0
      [] x.k = "list" -> Len(x.v) > 0
      [] x.k = "tuple" -> Len(x.v) > 0
      [] x.k = "dict" -> DOMAIN x.v # {}
      [] x.k = "int" -> x.v # 0
      [] OTHER -> TRUE

\* what a call did: it returned val, or it raised the named exception
Returned(val) == [raised |-> "none", val |-> val]
Raised(name) == [raised |-> name, val |-> <<>>]
Pending == [raised |-> "pending", val |-> <<>>]

----------------------------------------------------------------------------
(* json.loads on a str: a recursive-descent parser over the symbols.       *)
(* Symbols of JSON text: [ ] { } , : the double quote, the digits, null;   *)
(* every other symbol is text that is only legal inside a string literal.  *)

Quote == "\""
Digits == {"0", "1", "2", "3", "4", "5", "6", "7", "8", "9"}
DigitVal == [d \in Digits |->
    CASE d = "0" -> 0 [] d = "1" -> 1 [] d = "2" -> 2 [] d = "3" -> 3
      [] d = "4" -> 4 [] d = "5" -> 5 [] d = "6" -> 6 [] d = "7" -> 7
      [] d = "8" -> 8 [] d = "9" -> 9]

ParseFail == [ok |-> FALSE, val |-> PyNone, rest |-> <<>>]
ParseOk(val, rest) == [ok |-> TRUE, val |-> val, rest |-> rest]

\* the symbols of a string literal's body: up to the closing quote
RECURSIVE ParseStringBody(_, _)
ParseStringBody(ts, acc) ==
    IF ts = <<>> THEN ParseFail
    ELSE IF Head(ts) = Quote THEN ParseOk(PyStr(acc), Tail(ts))
    ELSE ParseStringBody(Tail(ts), Append(acc, Head(ts)))

RECURSIVE ParseValue(_), ParseElements(_, _), ParseMembers(_, _)
ParseValue(ts) ==
    IF ts = <<>> THEN ParseFail
    ELSE LET t == Head(ts)
             r == Tail(ts)
         IN  CASE t = "null" -> ParseOk(PyNone, r)
               [] t \in Digits -> ParseOk(PyInt(DigitVal[t]), r)
               [] t = Quote -> ParseStringBody(r, <<>>)
               [] t = "[" ->
                    IF r # <<>> /\ Head(r) = "]"
                    THEN ParseOk(PyList(<<>>), Tail(r))
                    ELSE ParseElements(r, <<>>)
               [] t = "{" ->
                    IF r # <<>> /\ Head(r) = "}"
                    THEN ParseOk(PyDict(<<>>), Tail(r))
                    ELSE ParseMembers(r, <<>>)
               [] OTHER -> ParseFail

\* after "[" or ",": one value, then "," and more, or "]"
ParseElements(ts, acc) ==
    LET p == ParseValue(ts)
    IN  IF ~p.ok \/ p.rest = <<>> THEN ParseFail
        ELSE IF Head(p.rest) = "," THEN ParseElements(Tail(p.rest), Append(acc, p.val))
        ELSE IF Head(p.rest) = "]" THEN ParseOk(PyList(Append(acc, p.val)), Tail(p.rest))
        ELSE ParseFail

\* after "{" or ",": "key" : value, then "," and more, or "}"; a repeated key keeps
\* the last value
ParseMembers(ts, acc) ==
    IF ts = <<>> \/ Head(ts) # Quote THEN ParseFail
    ELSE LET key == ParseStringBody(Tail(ts), <<>>)
         IN  IF ~key.ok \/ key.rest = <<>> \/ Head(key.rest) # ":" THEN ParseFail
             ELSE LET p == ParseValue(Tail(key.rest))
                      d == (key.val.v :> p.val) @@ acc
                  IN  IF ~p.ok \/ p.rest = <<>> THEN ParseFail
                      ELSE IF Head(p.rest) = "," THEN ParseMembers(Tail(p.rest), d)
                      ELSE IF Head(p.rest) = "}" THEN ParseOk(PyDict(d), Tail(p.rest))
                      ELSE ParseFail

\* json.loads(s): ok with the decoded value, or not ok (json.JSONDecodeError);
\* text left over after the value is an error too
JsonLoads(ts) ==
    LET p == ParseValue(ts)
    IN  IF p.ok /\ p.rest = <<>> THEN [ok |-> TRUE, val |-> p.val]
        ELSE [ok |-> FALSE, val |-> PyNone]

----------------------------------------------------------------------------
(* process_data.extract_address *)

EmptyTriple == <<EmptyStr, EmptyStr, EmptyStr>>

\* dict.get(key, "")
DictGet(d, key) == IF <<key>> \in DOMAIN d.v THEN d.v[<<key>>] ELSE EmptyStr

\* a list element that is no dict has no attribute get
AddressFields(address) ==
    IF IsDict(address)
    THEN Returned(<<DictGet(address, "city"), DictGet(address, "state"),
                    DictGet(address, "street")>>)
    ELSE Raised("AttributeError")

\* extract_address with the fault of reading the last list element
ExtractAddress_LastElement(a) ==
    LET dec == IF IsStr(a) THEN JsonLoads(a.v) ELSE [ok |-> TRUE, val |-> a]
    IN  IF ~dec.ok THEN Returned(EmptyTriple)
        ELSE IF IsList(dec.val) /\ Len(dec.val.v) > 0
             THEN AddressFields(dec.val.v[Len(dec.val.v)])
             ELSE Returned(EmptyTriple)

\* extract_address with the fault of letting json.JSONDecodeError escape
ExtractAddress_Uncaught(a) ==
    LET dec == IF IsStr(a) THEN JsonLoads(a.v) ELSE [ok |-> TRUE, val |-> a]
    IN  IF ~dec.ok THEN Raised("JSONDecodeError")
        ELSE IF IsList(dec.val) /\ Len(dec.val.v) > 0
             THEN AddressFields(dec.val.v[1])
             ELSE Returned(EmptyTriple)

ExtractAddress(a) ==
    LET dec == IF IsStr(a) THEN JsonLoads(a.v) ELSE [ok |-> TRUE, val |-> a]
    IN  IF ~dec.ok THEN Returned(EmptyTriple)
        ELSE IF IsList(dec.val) /\ Len(dec.val.v) > 0
             THEN AddressFields(dec.val.v[1])
             ELSE Returned(EmptyTriple)

----------------------------------------------------------------------------
(* The values of client.addresses that are tried.  psycopg2 hands a json   *)
(* column over already decoded and a text column as a str, so both forms   *)
(* of every value are inputs, and so are texts that are not JSON.          *)

AddrKeys == <<"city", "state", "street">>
AddrVals == {W("Austin"), W("Dallas")}

KeySets == SUBSET {<<AddrKeys[i]>> : i \in 1..Len(AddrKeys)}
AddressObjects == UNION {{PyDict(f) : f \in [D -> AddrVals]} : D \in KeySets}

\* first elements: address objects, and JSON values that are no objects
FirstElems == AddressObjects \cup {PyNone, PyInt(1), W("Austin"), PyList(<<>>)}
\* later elements
LaterElems == {PyDict([d \in {<<AddrKeys[i]>> : i \in 1..Len(AddrKeys)} |-> W("Dallas")]),
               PyDict(<<>>), PyInt(1)}

AddressLists ==
    UNION {{PyList(<<first>> \o rest) : first \in FirstElems, rest \in [1..n -> LaterElems]}
           : n \in 0..(MaxAddrs - 1)}

DecodedInputs == {PyList(<<>>)} \cup AddressLists \cup FirstElems

\* the JSON text of a value (separators without blanks)
RECURSIVE JsonText(_), JsonItems(_, _), JsonMembers(_, _)
JsonText(x) ==
    CASE x.k = "none" -> <<"null">>
      [] x.k = "int" -> <<CHOOSE d \in Digits : DigitVal[d] = x.v>>
      [] x.k = "str" -> <<Quote>> \o x.v \o <<Quote>>
      [] x.k = "list" -> <<"[">> \o JsonItems(x.v, 1) \o <<"]">>
      [] x.k = "dict" -> <<"{">> \o JsonMembers(x.v, 1) \o <<"}">>

JsonItems(s, i) ==
    IF i > Len(s) THEN <<>>
    ELSE JsonText(s[i]) \o (IF i < Len(s) THEN <<",">> ELSE <<>>) \o JsonItems(s, i + 1)

JsonMembers(f, i) ==
    IF i > Len(AddrKeys) THEN <<>>
    ELSE LET key == <<AddrKeys[i]>>
             more == \E j \in (i + 1)..Len(AddrKeys) : <<AddrKeys[j]>> \in DOMAIN f
         IN  (IF key \in DOMAIN f
              THEN <<Quote>> \o key \o <<Quote, ":">> \o JsonText(f[key])
                   \o (IF more THEN <<",">> ELSE <<>>)
              ELSE <<>>) \o JsonMembers(f, i + 1)

ValidTexts == {JsonText(x) : x \in DecodedInputs}
\* texts that are not JSON: cut short, with text after the value, empty, plain words
BrokenTexts ==
    {SubSeq(t, 1, Len(t) - 1) : t \in ValidTexts}
    \cup {t \o <<"x">> : t \in ValidTexts}
    \cup {<<>>, <<"not", " ", "json">>}

AddressInputs ==
    DecodedInputs \cup {PyStr(t) : t \in ValidTexts \cup BrokenTexts}

----------------------------------------------------------------------------
(* Tables (pandas.DataFrame): the column names and the rows, each row a    *)
(* record with one field per column.                                       *)

DataFrame(columns, rows) == [columns |-> columns, rows |-> rows]
\* pd.DataFrame(): no columns, no rows
EmptyDataFrame == DataFrame(<<>>, <<>>)

HasColumn(df, name) == \E i \in 1..Len(df.columns) : df.columns[i] = name
\* df.empty: some axis has length 0
IsEmpty(df) == Len(df.columns) = 0 \/ Len(df.rows) = 0

\* the columns of the two stage queries
StageColumns ==
    <<"client_id", "current_stage", "created_on", "client_fullname", "fphone1",
      "addresses", "assigned_employee_fullname">>

StageRow(id, stage, addr) ==
    [client_id |-> id, current_stage |-> stage, created_on |-> W("2024-01-01"),
     client_fullname |-> W("Ann"), fphone1 |-> W("555"), addresses |-> addr,
     assigned_employee_fullname |-> W("Bob")]

\* stored addresses that are tried in rows: null, the text of a one-address list,
\* the text of a list of a number, a decoded two-address list
RowAddresses ==
    {PyNone,
     PyStr(JsonText(PyList(<<PyDict((<<"city">> :> W("Austin")) @@ (<<"state">> :> W("Dallas")))>>))),
     PyStr(<<"[", "1", "]">>),
     PyList(<<PyDict(<<"street">> :> W("Austin")), PyDict(<<>>)>>)}
ClientIds == {7, 9}
Stages == {5, 6}
StageRows == {StageRow(id, st, a) : id \in ClientIds, st \in Stages, a \in RowAddresses}

SeqsUpTo(S, n) == UNION {[1..m -> S] : m \in 0..n}

----------------------------------------------------------------------------
(* process_data *)

\* df.drop_duplicates(subset=['client_id']) with every first row removed instead of
\* every later one (keep='last')
DropDuplicates_KeepLast(rows) ==
    LET kept == {i \in 1..Len(rows) :
                    \A j \in (i + 1)..Len(rows) : rows[j].client_id # rows[i].client_id}
        RECURSIVE Pick(_)
        Pick(i) == IF i > Len(rows) THEN <<>>
                   ELSE (IF i \in kept THEN <<rows[i]>> ELSE <<>>) \o Pick(i + 1)
    IN  Pick(1)

\* df.drop_duplicates(subset=['client_id']): a row stays unless an earlier row has
\* its client_id; the rows that stay keep their order
DropDuplicates(rows) ==
    LET kept == {i \in 1..Len(rows) :
                    \A j \in 1..(i - 1) : rows[j].client_id # rows[i].client_id}
        RECURSIVE Pick(_)
        Pick(i) == IF i > Len(rows) THEN <<>>
                   ELSE (IF i \in kept THEN <<rows[i]>> ELSE <<>>) \o Pick(i + 1)
    IN  Pick(1)

AddressColumns == <<"city", "state", "street">>

\* the row with the three derived columns
WithAddress(row, triple) ==
    row @@ [city |-> triple[1], state |-> triple[2], street |-> triple[3]]

\* df as process_data leaves it: the three derived columns are added in place (the
\* rows without duplicates are a new table)
WithAddressColumns(df) ==
    DataFrame(df.columns \o AddressColumns,
              [i \in 1..Len(df.rows) |->
                  WithAddress(df.rows[i], ExtractAddress(df.rows[i].addresses).val)])

\* The outcomes of process_data(df).  df['addresses'] raises KeyError on a table
\* without that column.  extract_address runs on the rows in order and the first
\* exception ends the call.  On a table without rows the two apply calls give an
\* empty result and the assignment to three columns depends on the pandas release:
\* it adds three empty columns or raises ValueError.
ProcessData(df) ==
    IF ~HasColumn(df, "addresses") THEN {Raised("KeyError")}
    ELSE LET extracted == [i \in 1..Len(df.rows) |-> ExtractAddress(df.rows[i].addresses)]
             bad == {i \in 1..Len(df.rows) : extracted[i].raised # "none"}
             first == CHOOSE i \in bad : \A j \in bad : i <= j
             full == WithAddressColumns(df)
             done == Returned(DataFrame(full.columns, DropDuplicates(full.rows)))
         IN  IF bad # {} THEN {Raised(extracted[first].raised)}
             ELSE IF Len(df.rows) = 0 THEN {done, Raised("ValueError")}
             ELSE {done}

----------------------------------------------------------------------------
(* Database handles *)

Handle(kind, by) == [kind |-> kind, open |-> TRUE, by |-> by]

\* handle.close(); 0 stands for a name that is None or unbound
Close(hs, h) == IF h = 0 THEN hs ELSE [hs EXCEPT ![h].open = FALSE]

\* fetch_data's finally block with the fault of closing the connection only when
\* there is a cursor
CloseHandles_Nested(hs, connection_, cursor_) ==
    IF cursor_ # 0 THEN Close(Close(hs, cursor_), connection_) ELSE hs

\* fetch_data's finally block: if cursor: cursor.close(); if connection:
\* connection.close()
CloseHandles(hs, connection_, cursor_) ==
    Close(Close(hs, cursor_), connection_)

----------------------------------------------------------------------------
(* int(client_id_str) *)

IdSymbols == {"7", "a", "-", " "}

RECURSIVE LStrip(_), RStrip(_), DecimalValue(_)
LStrip(s) == IF s # <<>> /\ Head(s) = " " THEN LStrip(Tail(s)) ELSE s
RStrip(s) == IF s # <<>> /\ s[Len(s)] = " " THEN RStrip(SubSeq(s, 1, Len(s) - 1)) ELSE s
DecimalValue(s) ==
    IF s = <<>> THEN 0
    ELSE 10 * DecimalValue(SubSeq(s, 1, Len(s) - 1)) + DigitVal[s[Len(s)]]

\* int() with the fault of reading a text without digits as 0
IntParse_Lenient(s) ==
    LET t == RStrip(LStrip(s))
        signed == t # <<>> /\ Head(t) \in {"+", "-"}
        body == IF signed THEN Tail(t) ELSE t
    IN  IF \A i \in 1..Len(body) : body[i] \in Digits
        THEN [ok |-> TRUE,
              val |-> IF signed /\ Head(t) = "-" THEN 0 - DecimalValue(body)
                      ELSE DecimalValue(body)]
        ELSE [ok |-> FALSE, val |-> 0]

\* int(s) of a str: blanks around it are dropped, one sign may lead, and what is
\* left must be one or more digits; anything else is a ValueError (not ok)
IntParse(s) ==
    LET t == RStrip(LStrip(s))
        signed == t # <<>> /\ Head(t) \in {"+", "-"}
        body == IF signed THEN Tail(t) ELSE t
    IN  IF body # <<>> /\ \A i \in 1..Len(body) : body[i] \in Digits
        THEN [ok |-> TRUE,
              val |-> IF signed /\ Head(t) = "-" THEN 0 - DecimalValue(body)
                      ELSE DecimalValue(body)]
        ELSE [ok |-> FALSE, val |-> 0]

----------------------------------------------------------------------------
(* What the render shows *)

ErrorShown(msg, detail) == [msg |-> msg, detail |-> detail]
InvalidClientId == ErrorShown("Invalid client ID.", "")

Element(kind, text, rows) == [kind |-> kind, text |-> text, rows |-> rows]

TitleOf(c) ==
    IF c = "gt4" THEN "Clients with Current Stage > 4 (Last 4 Days)"
    ELSE "Clients with Current Stage < 4 (Last 4 Days)"

\* the columns of the HTML table, the two links built from client_id and fphone1
TableRow(row) ==
    [client_fullname |-> row.client_fullname,
     phone_link |-> IF row.fphone1 # PyNone THEN [tel |-> row.fphone1] ELSE [tel |-> EmptyStr],
     client_url |-> [href |-> row.client_id],
     assigned_employee_fullname |-> row.assigned_employee_fullname,
     city |-> row.city, state |-> row.state, street |-> row.street]

\* display_clients(df, title)
DisplayClientsElements(df, title) ==
    <<Element("subheader", title, <<>>),
      IF IsEmpty(df)
      THEN Element("write", "No clients found matching the criteria.", <<>>)
      ELSE Element("table", title, [i \in 1..Len(df.rows) |-> TableRow(df.rows[i])])>>

----------------------------------------------------------------------------
(* The chat transcript *)

Statuses == {W("Received"), W("Sent"), W("received"), EmptyStr, PyNone}

\* TO_CHAR(created, ...) of the i-th row in ORDER BY created ASC
TimestampAt(i) == PyStr(<<"09", ":", CHOOSE d \in Digits : DigitVal[d] = i>>)

ChatRow(i, status) == [timestamp |-> TimestampAt(i), status |-> status, message |-> W("hi")]
ChatRowSeqs ==
    UNION {{[i \in 1..m |-> ChatRow(i, f[i])] : f \in [1..m -> Statuses]} : m \in 0..MaxChats}

\* the role decision with the fault of ignoring the case of the status
RoleOf_AnyCase(status) ==
    IF status \in {W("Received"), W("received")} THEN "client" ELSE "sales_rep"

\* if status == "Received": role client, else: role sales_rep
RoleOf(status) ==
    IF status = W("Received") THEN "client" ELSE "sales_rep"

\* the loop that builds chat_transcript
Transcript(rows) ==
    [i \in 1..Len(rows) |->
        [timestamp |-> rows[i].timestamp, role |-> RoleOf(rows[i].status),
         message |-> rows[i].message]]

ChatReturn(transcript, name, employee) ==
    [transcript |-> transcript, client_name |-> name, assigned_employee_name |-> employee]

\* the simulated reply and its words (str.split on blanks)
ResponseText(message) ==
    <<"Thank", " ", "you", " ", "for", " ", "reaching", " ", "out,", " ">>
    \o message.v
    \o <<".", " ", "I", " ", "will", " ", "get", " ", "back", " ", "to", " ", "you",
         " ", "soon.">>

RECURSIVE Split(_, _)
Split(s, word) ==
    IF s = <<>> THEN (IF word = <<>> THEN <<>> ELSE <<PyStr(word)>>)
    ELSE IF Head(s) = " "
         THEN (IF word = <<>> THEN <<>> ELSE <<PyStr(word)>>) \o Split(Tail(s), <<>>)
         ELSE Split(Tail(s), Append(word, Head(s)))

\* response_generator(message): each word with a blank after it
ResponseGenerator(message) ==
    LET words == Split(ResponseText(message), <<>>)
    IN  [i \in 1..Len(words) |-> PyStr(words[i].v \o <<" ">>)]

Message(role, content) == [role |-> role, content |-> content]

Prompts == {PyNone, EmptyStr, W("hello"), PyStr(<<"call", " ", "me">>)}

----------------------------------------------------------------------------
(* One render: main() *)

QueryParams == {PyNone} \cup {PyStr(s) : s \in SeqsUpTo(IdSymbols, MaxIdLen)}

\* the rows a stage query may return in a render
FetchedRows ==
    {StageRow(7, 5, PyStr(JsonText(PyList(<<PyDict(<<"city">> :> W("Austin"))>>)))),
     StageRow(7, 6, PyNone),
     StageRow(9, 5, PyStr(<<"[", "1", "]">>))}

NoChatReturn == ChatReturn(<<>>, PyNone, PyNone)

FetchIdle ==
    /\ connection = 0 /\ cursor = 0 /\ records = <<>> /\ ret = EmptyDataFrame
ChatIdle ==
    /\ conn = 0 /\ cur = 0 /\ chats = <<>> /\ client_info = PyNone
    /\ chat_ret = NoChatReturn

MainIdle ==
    /\ pc = "idle"
    /\ client_id_str = PyNone
    /\ client_id = 0
    /\ call = "gt4"
    /\ df_stage = [c \in {"gt4", "lt4"} |-> EmptyDataFrame]
    /\ df_processed = [c \in {"gt4", "lt4"} |-> EmptyDataFrame]
    /\ raised = "none"
    /\ handles = <<>>
    /\ errors = <<>>
    /\ ui = <<>>
    /\ exc = "none"
    /\ FetchIdle
    /\ ChatIdle
    /\ session_state = <<>>
    /\ prompt = PyNone

----------------------------------------------------------------------------
(* Specification of one extract_address call *)

AddressIdle == addresses = PyNone /\ ea_result = Pending
ProcessIdle == pd_df = EmptyDataFrame /\ pd_result = Pending

InitAddress ==
    /\ addresses \in AddressInputs
    /\ ea_result = Pending
    /\ ProcessIdle
    /\ MainIdle

CallExtractAddress ==
    /\ ea_result = Pending
    /\ ea_result' = ExtractAddress(addresses)
    /\ UNCHANGED <<addresses, procVars, mainVars>>

NextAddress == CallExtractAddress

SpecAddress == InitAddress /\ [][NextAddress]_vars

\* the call is over
AddressDone == ea_result # Pending
\* what the argument decodes to, when it is a str
Decoded == JsonLoads(addresses.v)

\* the argument is a non-empty list, or a str that decodes to one
FirstAddress ==
    IF IsStr(addresses) THEN Decoded.val.v[1] ELSE addresses.v[1]
HasFirstAddress ==
    IF IsStr(addresses)
    THEN Decoded.ok /\ IsList(Decoded.val) /\ Len(Decoded.val.v) > 0
    ELSE IsList(addresses) /\ Len(addresses.v) > 0

\* C3 (as stated): extract_address never raises: every call returns a triple.
C3_NeverRaises ==
    AddressDone => ea_result.raised = "none" /\ Len(ea_result.val) = 3

\* C5 (as stated): extract_address returns ("", "", "") for every argument that is
\* not a str, for every str that is not valid JSON, and for every str that decodes
\* to an empty list or to a value that is not a list.  Stated of the calls that
\* return, so that a violation is a triple that is returned and is not empty.
C5_Original ==
    AddressDone /\ ea_result.raised = "none" /\ (~IsStr(addresses) \/ ~HasFirstAddress)
        => ea_result.val = EmptyTriple

\* C5 (amended): extract_address returns ("", "", "") for every argument that is
\* neither a str nor a non-empty list, for every str that is not valid JSON, and
\* for every str that decodes to an empty list or to a value that is not a list.
C5_EmptyTriple ==
    AddressDone /\ ~HasFirstAddress => ea_result = Returned(EmptyTriple)

\* a str that is not valid JSON has been mapped to the empty triple
C5_Witness ==
    /\ AddressDone
    /\ IsStr(addresses) /\ Len(addresses.v) > 1 /\ ~Decoded.ok
    /\ ea_result = Returned(EmptyTriple)

\* C6: for a str that decodes to a non-empty list whose element 0 is an address
\* object, extract_address returns the city, state and street of element 0, with
\* "" for each key element 0 lacks, whatever the later elements are.
C6_FirstElementOnly ==
    AddressDone /\ IsStr(addresses) /\ HasFirstAddress /\ IsDict(FirstAddress)
        => /\ ea_result.raised = "none"
           /\ \A i \in 1..3 :
                ea_result.val[i] =
                    IF <<AddrKeys[i]>> \in DOMAIN FirstAddress.v
                    THEN FirstAddress.v[<<AddrKeys[i]>>]
                    ELSE EmptyStr

\* a two-element list whose elements disagree on the city, and whose element 0
\* lacks the street, has been processed
C6_Witness ==
    /\ AddressDone /\ IsStr(addresses) /\ HasFirstAddress
    /\ Len(Decoded.val.v) > 1
    /\ IsDict(FirstAddress) /\ IsDict(Decoded.val.v[2])
    /\ DOMAIN FirstAddress.v = {<<"city">>, <<"state">>}
    /\ DOMAIN Decoded.val.v[2].v = {<<"city">>, <<"state">>, <<"street">>}
    /\ FirstAddress.v[<<"city">>] # Decoded.val.v[2].v[<<"city">>]
    /\ ea_result = Returned(<<W("Austin"), W("Austin"), EmptyStr>>)

\* sanity of the inputs: every valid text decodes to the value it was written
\* from, and no broken text decodes
InputsDecode ==
    /\ \A x \in DecodedInputs : JsonLoads(JsonText(x)) = [ok |-> TRUE, val |-> x]
    /\ \A t \in BrokenTexts : ~JsonLoads(t).ok

----------------------------------------------------------------------------
(* Specification of one process_data call *)

ProcessInputs ==
    {EmptyDataFrame} \cup {DataFrame(StageColumns, rows) : rows \in SeqsUpTo(StageRows, MaxRows)}

InitProcess ==
    /\ pd_df \in ProcessInputs
    /\ pd_result = Pending
    /\ AddressIdle
    /\ MainIdle

CallProcessData ==
    /\ pd_result = Pending
    /\ pd_result' \in ProcessData(pd_df)
    /\ UNCHANGED <<pd_df, addrVars, mainVars>>

NextProcess == CallProcessData

SpecProcess == InitProcess /\ [][NextProcess]_vars

\* the client_id values of a row sequence
IdsOf(rows) == {rows[i].client_id : i \in 1..Len(rows)}
\* the row without the derived columns
Original(row) == [c \in DOMAIN row \ {"city", "state", "street"} |-> row[c]]

\* C4: after process_data the result holds exactly one row per distinct client_id
\* of the input: as many rows as distinct client_id values, at most as many as the
\* input, and the row kept for a client_id is the first input row with it, its
\* fields unchanged.
C4_FirstRowPerClient ==
    pd_result.raised = "none" =>
        LET in == pd_df.rows
            out == pd_result.val.rows
        IN  /\ Len(out) = Cardinality(IdsOf(in))
            /\ Len(out) <= Len(in)
            /\ IdsOf(out) = IdsOf(in)
            /\ \A i \in 1..Len(out) :
                 \E j \in 1..Len(in) :
                    /\ Original(out[i]) = in[j]
                    /\ \A h \in 1..(j - 1) : in[h].client_id # in[j].client_id

\* three rows, the first and the last of the same client with different stages,
\* have been reduced to two rows
C4_Witness ==
    /\ pd_result.raised = "none"
    /\ Len(pd_df.rows) = 3 /\ Len(pd_result.val.rows) = 2
    /\ pd_df.rows[1].client_id = pd_df.rows[3].client_id
    /\ pd_df.rows[1].current_stage # pd_df.rows[3].current_stage
    /\ pd_result.val.rows[1].current_stage = pd_df.rows[1].current_stage

----------------------------------------------------------------------------
(* Specification of one render *)

Init ==
    /\ pc = "main"
    /\ client_id_str \in QueryParams
    /\ client_id = 0
    /\ call = "gt4"
    /\ df_stage = [c \in {"gt4", "lt4"} |-> EmptyDataFrame]
    /\ df_processed = [c \in {"gt4", "lt4"} |-> EmptyDataFrame]
    /\ raised = "none"
    /\ handles = <<>>
    /\ errors = <<>>
    /\ ui = <<>>
    /\ exc = "none"
    /\ FetchIdle
    /\ ChatIdle
    /\ session_state = <<>>
    /\ prompt = PyNone
    /\ AddressIdle
    /\ ProcessIdle

\* main, up to the first call: the chat view for a client_id that is set, with
\* int() deciding whether it is an id, else the list view
MainStart ==
    /\ pc = "main"
    /\ IF Truthy(client_id_str)
       THEN LET parsed == IntParse(client_id_str.v)
            IN  IF parsed.ok
                THEN /\ client_id' = parsed.val
                     /\ pc' = "fc_connect"
                     /\ UNCHANGED errors
                ELSE /\ errors' = Append(errors, InvalidClientId)
                     /\ pc' = "done"
                     /\ UNCHANGED client_id
       ELSE /\ pc' = "fd_connect"
            /\ UNCHANGED <<client_id, errors>>
    /\ UNCHANGED <<client_id_str, call, df_stage, df_processed, raised, handles, ui, exc,
                   fetchVars, chatVars, session_state, prompt, addrVars, procVars>>

\* what no step of fetch_data changes
FetchFrame ==
    UNCHANGED <<client_id_str, client_id, call, df_processed, raised, ui, chatVars,
                session_state, prompt, addrVars, procVars>>

\* a step of fetch_data raises: control goes to the except block
FetchRaise(point) ==
    /\ pc' = "fd_except"
    /\ exc' = point
    /\ UNCHANGED <<handles, connection, cursor, records, ret, errors, df_stage>>

\* connection = psycopg2.connect(**db_params)
FetchConnect ==
    /\ pc = "fd_connect"
    /\ \/ /\ handles' = Append(handles, Handle("connection", "fetch_data"))
          /\ connection' = Len(handles) + 1
          /\ pc' = "fd_cursor"
          /\ UNCHANGED <<cursor, records, ret, errors, df_stage, exc>>
       \/ FetchRaise("connect")
    /\ FetchFrame

\* cursor = connection.cursor()
FetchCursor ==
    /\ pc = "fd_cursor"
    /\ \/ /\ handles' = Append(handles, Handle("cursor", "fetch_data"))
          /\ cursor' = Len(handles) + 1
          /\ pc' = "fd_execute"
          /\ UNCHANGED <<connection, records, ret, errors, df_stage, exc>>
       \/ FetchRaise("cursor")
    /\ FetchFrame

\* cursor.execute(query, params)
FetchExecute ==
    /\ pc = "fd_execute"
    /\ \/ /\ pc' = "fd_fetchall"
          /\ UNCHANGED <<handles, connection, cursor, records, ret, errors, df_stage, exc>>
       \/ FetchRaise("execute")
    /\ FetchFrame

\* records = cursor.fetchall()
FetchAll ==
    /\ pc = "fd_fetchall"
    /\ \/ /\ records' \in SeqsUpTo(FetchedRows, MaxFetched)
          /\ pc' = "fd_build"
          /\ UNCHANGED <<handles, connection, cursor, ret, errors, df_stage, exc>>
       \/ FetchRaise("fetchall")
    /\ FetchFrame

\* df = pd.DataFrame(records, columns=column_names); return df
FetchBuild ==
    /\ pc = "fd_build"
    /\ \/ /\ ret' = DataFrame(StageColumns, records)
          /\ pc' = "fd_finally"
          /\ UNCHANGED <<handles, connection, cursor, records, errors, df_stage, exc>>
       \/ FetchRaise("build")
    /\ FetchFrame

\* except Exception as error: st.error(...); return pd.DataFrame()
FetchExcept ==
    /\ pc = "fd_except"
    /\ errors' = Append(errors, ErrorShown("Error fetching records", exc))
    /\ ret' = EmptyDataFrame
    /\ exc' = "none"
    /\ pc' = "fd_finally"
    /\ UNCHANGED <<handles, connection, cursor, records, df_stage>>
    /\ FetchFrame

\* finally: close what was opened; then the caller binds the returned table and
\* main goes on to the second query or to process_data
FetchFinally ==
    /\ pc = "fd_finally"
    /\ handles' = CloseHandles(handles, connection, cursor)
    /\ df_stage' = [df_stage EXCEPT ![call] = ret]
    /\ connection' = 0
    /\ cursor' = 0
    /\ records' = <<>>
    /\ ret' = EmptyDataFrame
    /\ IF call = "gt4"
       THEN call' = "lt4" /\ pc' = "fd_connect"
       ELSE call' = "gt4" /\ pc' = "process"
    /\ UNCHANGED <<client_id_str, client_id, df_processed, raised, errors, ui, exc,
                   chatVars, session_state, prompt, addrVars, procVars>>

\* df_processed_... = process_data(df_stage_...), first for > 4, then for < 4; an
\* exception of process_data leaves main
ProcessStep ==
    /\ pc = "process"
    /\ \E out \in ProcessData(df_stage[call]) :
         IF out.raised # "none"
         THEN /\ raised' = out.raised
              /\ pc' = "crashed"
              /\ UNCHANGED <<call, df_processed, df_stage>>
         ELSE /\ df_processed' = [df_processed EXCEPT ![call] = out.val]
              /\ df_stage' = [df_stage EXCEPT ![call] = WithAddressColumns(df_stage[call])]
              /\ IF call = "gt4"
                 THEN call' = "lt4" /\ pc' = "process"
                 ELSE call' = "gt4" /\ pc' = "display"
              /\ UNCHANGED raised
    /\ UNCHANGED <<client_id_str, client_id, handles, errors, ui, exc, fetchVars,
                   chatVars, session_state, prompt, addrVars, procVars>>

\* display_clients(df_processed_..., title), first for > 4, then for < 4
DisplayClients ==
    /\ pc = "display"
    /\ ui' = ui \o DisplayClientsElements(df_processed[call], TitleOf(call))
    /\ IF call = "gt4"
       THEN call' = "lt4" /\ pc' = "display"
       ELSE call' = "gt4" /\ pc' = "done"
    /\ UNCHANGED <<client_id_str, client_id, df_stage, df_processed, raised, handles,
                   errors, exc, fetchVars, chatVars, session_state, prompt, addrVars,
                   procVars>>

\* what no step of fetch_chat_data changes
ChatFrame ==
    UNCHANGED <<client_id_str, client_id, call, df_stage, df_processed, raised, ui,
                fetchVars, session_state, prompt, addrVars, procVars>>

\* a step of fetch_chat_data raises: control goes to the except block
ChatRaise(point) ==
    /\ pc' = "fc_except"
    /\ exc' = point
    /\ UNCHANGED <<handles, conn, cur, chats, client_info, chat_ret, errors>>

\* conn = psycopg2.connect(**db_params)
ChatConnect ==
    /\ pc = "fc_connect"
    /\ \/ /\ handles' = Append(handles, Handle("connection", "fetch_chat_data"))
          /\ conn' = Len(handles) + 1
          /\ pc' = "fc_cursor"
          /\ UNCHANGED <<cur, chats, client_info, chat_ret, errors, exc>>
       \/ ChatRaise("connect")
    /\ ChatFrame

\* cur = conn.cursor()
ChatCursor ==
    /\ pc = "fc_cursor"
    /\ \/ /\ handles' = Append(handles, Handle("cursor", "fetch_chat_data"))
          /\ cur' = Len(handles) + 1
          /\ pc' = "fc_execute_chat"
          /\ UNCHANGED <<conn, chats, client_info, chat_ret, errors, exc>>
       \/ ChatRaise("cursor")
    /\ ChatFrame

\* cur.execute(chat_query, (client_id,))
ChatExecuteChat ==
    /\ pc = "fc_execute_chat"
    /\ \/ /\ pc' = "fc_fetch_chat"
          /\ UNCHANGED <<handles, conn, cur, chats, client_info, chat_ret, errors, exc>>
       \/ ChatRaise("execute chat_query")
    /\ ChatFrame

\* chats = cur.fetchall()
ChatFetchAll ==
    /\ pc = "fc_fetch_chat"
    /\ \/ /\ chats' \in ChatRowSeqs
          /\ pc' = "fc_execute_client"
          /\ UNCHANGED <<handles, conn, cur, client_info, chat_ret, errors, exc>>
       \/ ChatRaise("fetchall")
    /\ ChatFrame

\* cur.execute(client_query, (client_id,))
ChatExecuteClient ==
    /\ pc = "fc_execute_client"
    /\ \/ /\ pc' = "fc_fetch_client"
          /\ UNCHANGED <<handles, conn, cur, chats, client_info, chat_ret, errors, exc>>
       \/ ChatRaise("execute client_query")
    /\ ChatFrame

\* client_info = cur.fetchone(): the client's row, or None when there is none
ChatFetchOne ==
    /\ pc = "fc_fetch_client"
    /\ \/ /\ client_info' \in {PyNone, PyTuple(<<W("Ann"), PyInt(client_id), W("Bob")>>),
                               PyTuple(<<W("Ann"), PyInt(client_id), PyNone>>)}
          /\ pc' = "fc_build"
          /\ UNCHANGED <<handles, conn, cur, chats, chat_ret, errors, exc>>
       \/ ChatRaise("fetchone")
    /\ ChatFrame

\* the transcript loop, the names, cur.close(), conn.close() and the return
ChatBuild ==
    /\ pc = "fc_build"
    /\ chat_ret' =
         IF Truthy(client_info)
         THEN ChatReturn(Transcript(chats), client_info.v[1], client_info.v[3])
         ELSE ChatReturn(Transcript(chats), W("Client"), PyStr(<<"Sales", " ", "Rep">>))
    /\ handles' = Close(Close(handles, cur), conn)
    /\ conn' = 0
    /\ cur' = 0
    /\ pc' = "chat_view"
    /\ UNCHANGED <<chats, client_info, errors, exc>>
    /\ ChatFrame

\* except Exception as e: st.error(...); return [], None, None
ChatExcept ==
    /\ pc = "fc_except"
    /\ errors' = Append(errors, ErrorShown("Error fetching chat data for client ID", exc))
    /\ chat_ret' = NoChatReturn
    /\ exc' = "none"
    /\ conn' = 0
    /\ cur' = 0
    /\ pc' = "chat_view"
    /\ UNCHANGED <<handles, chats, client_info>>
    /\ ChatFrame

\* main after fetch_chat_data: the title, the employee, and the chat or the note
\* that there is none
ChatView ==
    /\ pc = "chat_view"
    /\ LET head == <<Element("title", "Chat with", <<chat_ret.client_name>>),
                     Element("markdown", "Assigned Employee:",
                             <<chat_ret.assigned_employee_name>>)>>
       IN  IF Len(chat_ret.transcript) > 0
           THEN ui' = ui \o head /\ pc' = "chat_ui"
           ELSE /\ ui' = ui \o head \o <<Element("write", "No chat history available.", <<>>)>>
                /\ pc' = "done"
    /\ UNCHANGED <<client_id_str, client_id, call, df_stage, df_processed, raised, handles,
                   errors, exc, fetchVars, chatVars, session_state, prompt, addrVars,
                   procVars>>

\* display_chat_ui: the history, then the chat input.  A submitted prompt is
\* appended to st.session_state.messages, which raises AttributeError when the
\* session has no such attribute; else the prompt is shown and the first word of
\* the reply is written, after which st.experimental_rerun() ends the run.
DisplayChatUi ==
    /\ pc = "chat_ui"
    /\ \E p \in Prompts :
         /\ prompt' = p
         /\ LET history == <<Element("history", "", chat_ret.transcript)>>
            IN  IF ~Truthy(p)
                THEN /\ ui' = ui \o history
                     /\ pc' = "done"
                     /\ UNCHANGED <<session_state, raised>>
                ELSE IF "messages" \notin DOMAIN session_state
                THEN /\ ui' = ui \o history
                     /\ raised' = "AttributeError"
                     /\ pc' = "crashed"
                     /\ UNCHANGED session_state
                ELSE /\ session_state' =
                            [session_state EXCEPT
                                !["messages"] = Append(@, Message("client", p))]
                     /\ ui' = ui \o history
                                 \o <<Element("client-message", "Just now", <<p>>),
                                      Element("markdown", "", <<ResponseGenerator(p)[1]>>)>>
                     /\ pc' = "rerun"
                     /\ UNCHANGED raised
    /\ UNCHANGED <<client_id_str, client_id, call, df_stage, df_processed, handles,
                   errors, exc, fetchVars, chatVars, addrVars, procVars>>

Next ==
    \/ MainStart
    \/ FetchConnect \/ FetchCursor \/ FetchExecute \/ FetchAll \/ FetchBuild
    \/ FetchExcept \/ FetchFinally
    \/ ProcessStep \/ DisplayClients
    \/ ChatConnect \/ ChatCursor \/ ChatExecuteChat \/ ChatFetchAll
    \/ ChatExecuteClient \/ ChatFetchOne \/ ChatBuild \/ ChatExcept
    \/ ChatView \/ DisplayChatUi

Spec == Init /\ [][Next]_vars

----------------------------------------------------------------------------
(* Properties of a render *)

\* the render is over: main returned, an exception left it, or it was rerun
Over == pc \in {"done", "crashed", "rerun"}
ListView == ~Truthy(client_id_str)
Queries == {"gt4", "lt4"}
\* the stage query's fetch_data call returned pd.DataFrame()
FetchFailed(c) == Len(df_stage[c].columns) = 0
\* the two elements display_clients wrote for a query, when main got that far
Section(c) == IF c = "gt4" THEN SubSeq(ui, 1, 2) ELSE SubSeq(ui, 3, 4)

\* C1 (as stated): a list-view render in which a stage query failed inside
\* fetch_data shows one error per failed query and still runs to completion: no
\* exception leaves main, the failed query's section shows the 'no clients found'
\* state and the other query's section is rendered too.
C1_FetchFailureTolerated ==
    Over /\ ListView /\ (\E c \in Queries : FetchFailed(c)) =>
        /\ Len(errors) = Cardinality({c \in Queries : FetchFailed(c)})
        /\ raised = "none"
        /\ pc = "done"
        /\ Len(ui) = 4
        /\ \A c \in Queries :
             /\ Section(c)[1] = Element("subheader", TitleOf(c), <<>>)
             /\ FetchFailed(c) =>
                  Section(c)[2] = Element("write", "No clients found matching the criteria.", <<>>)

FetchDataPcs ==
    {"fd_connect", "fd_cursor", "fd_execute", "fd_fetchall", "fd_build", "fd_except",
     "fd_finally"}
OpenedBy(by) == {i \in 1..Len(handles) : handles[i].by = by}

\* C2: whenever control is outside fetch_data, every connection and every cursor
\* that a fetch_data call opened is closed, whether the call returned a table or
\* failed at connect, cursor creation, execute, fetchall or the table's building.
C2_FetchDataClosesHandles ==
    (pc \notin FetchDataPcs \/ pc = "fd_connect") =>
        \A i \in OpenedBy("fetch_data") : ~handles[i].open

\* both calls have returned: one built its table, the other failed when it
\* created its cursor, and the three handles they opened are closed
C2_Witness ==
    /\ pc = "process"
    /\ Len(handles) = 3
    /\ Len(errors) = 1 /\ errors[1].detail = "cursor"
    /\ \A i \in 1..3 : handles[i].by = "fetch_data" /\ ~handles[i].open

ChatFetchReturned == pc \in {"chat_view", "chat_ui", "done", "crashed", "rerun"} /\ ~ListView

\* C7: when fetch_chat_data returns without an error, its transcript has one entry
\* per row of the chat query, in the rows' order, and entry i has role client if
\* and only if the status of row i is exactly "Received"; every other status
\* (null, empty, another case) gives role sales_rep.
C7_RoleMapping ==
    ChatFetchReturned /\ errors = <<>> =>
        LET t == chat_ret.transcript
        IN  /\ Len(t) = Len(chats)
            /\ \A i \in 1..Len(t) :
                 /\ t[i].timestamp = chats[i].timestamp
                 /\ t[i].message = chats[i].message
                 /\ t[i].role \in {"client", "sales_rep"}
                 /\ t[i].role = "client" <=> chats[i].status = PyStr(<<"Received">>)

\* a transcript of a received message and of one whose status differs in case only
C7_Witness ==
    /\ ChatFetchReturned /\ errors = <<>>
    /\ Len(chats) = 2
    /\ chats[1].status = W("received") /\ chats[2].status = W("Received")
    /\ chat_ret.transcript[1].role = "sales_rep"
    /\ chat_ret.transcript[2].role = "client"

\* the text is an integer literal: blanks, at most one sign, one or more digits,
\* blanks
IsIntegerLiteral(s) ==
    \E a \in 0..Len(s), b \in 1..(Len(s) + 1) :
        /\ a < b
        /\ \A i \in 1..a : s[i] = " "
        /\ \A i \in b..Len(s) : s[i] = " "
        /\ \E d \in (a + 1)..(b - 1) :
             /\ \A i \in d..(b - 1) : s[i] \in Digits
             /\ d = a + 1 \/ (d = a + 2 /\ s[a + 1] \in {"+", "-"})

InvalidId == Truthy(client_id_str) /\ ~IsIntegerLiteral(client_id_str.v)

\* C8: in a render whose client_id parameter is set and is no integer, main shows
\* the error 'Invalid client ID.' and nothing else: no title, no transcript, no chat
\* input, no database handle is opened and no exception leaves main.
C8_InvalidClientId ==
    InvalidId =>
        /\ handles = <<>>
        /\ ui = <<>>
        /\ raised = "none"
        /\ pc \in {"main", "done"}
        /\ pc = "done" => errors = <<InvalidClientId>>

\* the render of client_id=7a is over with the error shown
C8_Witness ==
    /\ client_id_str = PyStr(<<"7", "a">>)
    /\ pc = "done"
    /\ errors = <<InvalidClientId>>
    /\ handles = <<>>

\* C9 (as stated): once fetch_chat_data has returned, the connection and the cursor
\* it opened are closed, at whichever point after the connect the call failed.
C9_ChatFetchClosesHandles ==
    ChatFetchReturned => \A i \in OpenedBy("fetch_chat_data") : ~handles[i].open

\* the reply the chat view is to store for a prompt
ReplyTo(p) == PyStr(ResponseText(p))

\* C10 (as stated): the handling of a submitted prompt ends with the session's
\* message list holding the client message followed by the sales_rep reply.
C10_PromptHandled ==
    Over /\ Truthy(prompt) =>
        /\ "messages" \in DOMAIN session_state
        /\ Len(session_state["messages"]) >= 2
        /\ LET n == Len(session_state["messages"])
           IN  /\ session_state["messages"][n - 1] = Message("client", prompt)
               /\ session_state["messages"][n] = Message("sales_rep", ReplyTo(prompt))

====
